---- MODULE Spec2Model ----
(***************************************************************************)
(* A model of libwyag.py: the object codecs (blob, tree, commit, tag), the *)
(* object store (object_read, object_write, object_hash) and checkout.     *)
(*                                                                         *)
(* Bytes and str values are sequences of character codes.  Positions are   *)
(* the 0-based positions of the Python code.  A call that raises is the    *)
(* value Err(kind); a call that returns is Ok(value).                      *)
(***************************************************************************)
EXTENDS Integers, Sequences, FiniteSets, TLC

\* ------------------------------------------------------------------ bounds
MaxItems == 2      \* entries of a constructed tree
MaxStored == 2     \* object files in the initial object store

\* ------------------------------------------------------- character codes
NUL == 0
LF == 10
SP == 32
SLASH == 47
CH_x == 120

\* --------------------------------------------------------- result values
Ok(v) == [tag |-> "ok", v |-> v]
Err(kind) == [tag |-> "err", v |-> kind]
IsOk(r) == r.tag = "ok"
IsErr(r) == r.tag = "err"

\* F applied to the value of e: a local name for one value
Bind(e, F(_)) == CHOOSE r \in {F(v) : v \in {e}} : TRUE

\* ------------------------------------------------- Python bytes/str helpers
MinOf(S) == CHOOSE m \in S : \A o \in S : m <= o

\* slice index normalisation of s[a:b] and of the start argument of find
Norm(i, n) == IF i < 0 THEN (IF i + n < 0 THEN 0 ELSE i + n)
              ELSE IF i > n THEN n ELSE i

\* s[a:b]
slice(s, a, b) ==
  LET n == Len(s)
      a1 == Norm(a, n)
      b1 == Norm(b, n)
  IN IF a1 < b1 THEN SubSeq(s, a1 + 1, b1) ELSE <<>>

\* s[a:]
slice_from(s, a) == slice(s, a, Len(s))

\* s.find(c, start) for a one-byte needle c
find(s, c, start) ==
  LET n == Len(s)
      cand == {i \in Norm(start, n)..(n - 1) : s[i + 1] = c}
  IN IF cand = {} THEN -1 ELSE MinOf(cand)

\* s.startswith(p)
startswith(s, p) == Len(s) >= Len(p) /\ SubSeq(s, 1, Len(p)) = p

\* a < b on str/bytes: lexicographic by code
RECURSIVE StrLess(_, _)
StrLess(a, b) ==
  IF b = <<>> THEN FALSE
  ELSE IF a = <<>> THEN TRUE
  ELSE IF a[1] # b[1] THEN a[1] < b[1]
  ELSE StrLess(Tail(a), Tail(b))

\* bytes.decode("utf8"): the code points of the well-formed sequences of one
\* to four bytes; anything else raises.
IsCont(b, i) == i <= Len(b) /\ b[i] >= 128 /\ b[i] <= 191

RECURSIVE utf8_points(_, _, _)
utf8_points(b, i, acc) ==
  IF i > Len(b) THEN Ok(acc)
  ELSE LET c == b[i]
       IN IF c < 128 THEN utf8_points(b, i + 1, Append(acc, c))
          ELSE IF c >= 194 /\ c <= 223 /\ IsCont(b, i + 1)
               THEN utf8_points(b, i + 2,
                                Append(acc, (c - 192) * 64 + (b[i + 1] - 128)))
          ELSE IF c >= 224 /\ c <= 239 /\ IsCont(b, i + 1) /\ IsCont(b, i + 2)
                  /\ (c = 224 => b[i + 1] >= 160) /\ (c = 237 => b[i + 1] <= 159)
               THEN utf8_points(b, i + 3,
                                Append(acc, (c - 224) * 4096 + (b[i + 1] - 128) * 64
                                            + (b[i + 2] - 128)))
          ELSE IF c >= 240 /\ c <= 244 /\ IsCont(b, i + 1) /\ IsCont(b, i + 2)
                  /\ IsCont(b, i + 3)
                  /\ (c = 240 => b[i + 1] >= 144) /\ (c = 244 => b[i + 1] <= 143)
               THEN utf8_points(b, i + 4,
                                Append(acc, (c - 240) * 262144 + (b[i + 1] - 128) * 4096
                                            + (b[i + 2] - 128) * 64 + (b[i + 3] - 128)))
          ELSE Err("UnicodeDecodeError")

decode_utf8(b) == utf8_points(b, 1, <<>>)

\* str.encode("utf8") of a str without surrogates
RECURSIVE encode_utf8(_)
encode_utf8(s) ==
  IF s = <<>> THEN <<>>
  ELSE LET c == s[1]
           head == IF c < 128 THEN <<c>>
                   ELSE IF c < 2048 THEN <<192 + (c \div 64), 128 + (c % 64)>>
                   ELSE IF c < 65536
                        THEN <<224 + (c \div 4096), 128 + ((c \div 64) % 64),
                               128 + (c % 64)>>
                   ELSE <<240 + (c \div 262144), 128 + ((c \div 4096) % 64),
                          128 + ((c \div 64) % 64), 128 + (c % 64)>>
       IN head \o encode_utf8(Tail(s))

\* the lowercase hexadecimal digit of a nibble and back
HexChar(d) == IF d < 10 THEN 48 + d ELSE 87 + d
HexVal(c) == IF c >= 48 /\ c <= 57 THEN c - 48
             ELSE IF c >= 97 /\ c <= 102 THEN c - 87
             ELSE IF c >= 65 /\ c <= 70 THEN c - 55 ELSE -1
IsHex(s) == s # <<>> /\ \A i \in 1..Len(s) : HexVal(s[i]) >= 0

RECURSIVE Repeat(_, _)
Repeat(c, n) == IF n <= 0 THEN <<>> ELSE <<c>> \o Repeat(c, n - 1)

RECURSIVE StripLeading(_, _)
StripLeading(s, c) ==
  IF s # <<>> /\ s[1] = c THEN StripLeading(Tail(s), c) ELSE s

\* format(int.from_bytes(b, "big"), "040x"): two digits per byte, leading
\* zero digits dropped by the integer, then padded on the left to 40.
RECURSIVE HexOfBytes(_)
HexOfBytes(b) ==
  IF b = <<>> THEN <<>>
  ELSE <<HexChar(b[1] \div 16), HexChar(b[1] % 16)>> \o HexOfBytes(Tail(b))

format_040x(b) ==
  LET digits == StripLeading(HexOfBytes(b), 48)
  IN Repeat(48, 40 - Len(digits)) \o digits

\* int(sha, 16).to_bytes(20, byteorder="big")
RECURSIVE BytesOfHex(_)
BytesOfHex(h) ==
  IF Len(h) < 2 THEN <<>>
  ELSE <<16 * HexVal(h[1]) + HexVal(h[2])>> \o BytesOfHex(Tail(Tail(h)))

to_bytes_20(sha) ==
  LET digits == StripLeading(sha, 48)
  IN IF ~IsHex(sha) THEN Err("ValueError")
     ELSE IF Len(digits) > 40 THEN Err("OverflowError")
     ELSE Ok(BytesOfHex(Repeat(48, 40 - Len(digits)) \o digits))

\* ------------------------------------------------------------ tree codec
GitTreeLeaf(mode, path, sha) == [mode |-> mode, path |-> path, sha |-> sha]

\* Reads one entry at start: Ok([pos, leaf]) or the exception raised.
tree_parse_one(raw, start) ==
  LET x == find(raw, SP, start)
      mode0 == slice(raw, start, x)
      mode == IF Len(mode0) = 5 THEN <<SP>> \o mode0 ELSE mode0
      y == find(raw, NUL, x)
      path == decode_utf8(slice(raw, x + 1, y))
      sha == format_040x(slice(raw, y + 1, y + 21))
  IN IF ~(x - start = 5 \/ x - start = 6) THEN Err("AssertionError")
     ELSE IF IsErr(path) THEN path
     ELSE Ok([pos |-> y + 21, leaf |-> GitTreeLeaf(mode, path.v, sha)])

\* The while loop of tree_parse.  The loop's control state is pos alone, so
\* a position met twice means the loop never ends: Err("NoReturn").
RECURSIVE tree_parse_loop(_, _, _, _)
tree_parse_loop(raw, pos, ret, seen) ==
  IF ~(pos < Len(raw)) THEN Ok(ret)
  ELSE IF pos \in seen THEN Err("NoReturn")
  ELSE LET one == tree_parse_one(raw, pos)
       IN IF IsErr(one) THEN one
          ELSE tree_parse_loop(raw, one.v.pos, Append(ret, one.v.leaf),
                               seen \cup {pos})

tree_parse(raw) == tree_parse_loop(raw, 0, <<>>, {})

tree_leaf_sort_key(leaf) ==
  IF startswith(leaf.mode, <<49, 48>>) THEN leaf.path
  ELSE leaf.path \o <<SLASH>>

\* list.sort(key=tree_leaf_sort_key): a stable sort, as an insertion sort
\* that places an item after every item whose key is not greater.
sort_insert(sorted, item) ==
  LET k == tree_leaf_sort_key(item)
      after == {i \in 1..Len(sorted) : StrLess(k, tree_leaf_sort_key(sorted[i]))}
      p == IF after = {} THEN Len(sorted) + 1 ELSE MinOf(after)
  IN SubSeq(sorted, 1, p - 1) \o <<item>> \o SubSeq(sorted, p, Len(sorted))

RECURSIVE sort_items(_, _)
sort_items(items, sorted) ==
  IF items = <<>> THEN sorted
  ELSE sort_items(Tail(items), sort_insert(sorted, items[1]))

\* obj.items after obj.items.sort(key=tree_leaf_sort_key)
items_sorted(items) == sort_items(items, <<>>)

\* the bytes of one entry, as the loop body of tree_serialize appends them
tree_serialize_one(i) ==
  LET sha == to_bytes_20(i.sha)
  IN IF IsErr(sha) THEN sha
     ELSE Ok(i.mode \o <<SP>> \o encode_utf8(i.path) \o <<NUL, CH_x>> \o sha.v)

RECURSIVE tree_serialize_loop(_, _)
tree_serialize_loop(items, ret) ==
  IF items = <<>> THEN Ok(ret)
  ELSE LET one == tree_serialize_one(items[1])
       IN IF IsErr(one) THEN one
          ELSE tree_serialize_loop(Tail(items), ret \o one.v)

\* tree_serialize(obj): the bytes returned (obj.items is left sorted)
tree_serialize(items) == tree_serialize_loop(items_sorted(items), <<>>)

\* ------------------------------------------------------------ KVLM codec
\* An ordered dict is a sequence of entries [key, val].  key is None or a
\* bytes value; val is a bytes value or a list of bytes values.
NoneKey == [none |-> TRUE, b |-> <<>>]
BytesKey(b) == [none |-> FALSE, b |-> b]
Single(v) == [list |-> FALSE, items |-> <<v>>]
ListOf(vs) == [list |-> TRUE, items |-> vs]

dict_has(dct, key) == \E i \in 1..Len(dct) : dct[i].key = key
dict_index(dct, key) == CHOOSE i \in 1..Len(dct) : dct[i].key = key
dict_get(dct, key) == dct[dict_index(dct, key)].val
\* dct[key] = val: a new key goes last, an old key keeps its place
dict_set(dct, key, val) ==
  IF dict_has(dct, key)
  THEN [dct EXCEPT ![dict_index(dct, key)] = [key |-> key, val |-> val]]
  ELSE Append(dct, [key |-> key, val |-> val])

\* v.replace(b"\n ", b"\n")
RECURSIVE replace_lfsp_lf(_)
replace_lfsp_lf(v) ==
  IF v = <<>> THEN <<>>
  ELSE IF Len(v) >= 2 /\ v[1] = LF /\ v[2] = SP
       THEN <<LF>> \o replace_lfsp_lf(Tail(Tail(v)))
  ELSE <<v[1]>> \o replace_lfsp_lf(Tail(v))

\* v.replace(b"\n", b"\n ")
RECURSIVE replace_lf_lfsp(_)
replace_lf_lfsp(v) ==
  IF v = <<>> THEN <<>>
  ELSE IF v[1] = LF THEN <<LF, SP>> \o replace_lf_lfsp(Tail(v))
  ELSE <<v[1]>> \o replace_lf_lfsp(Tail(v))

\* The while True loop of kvlm_parse from a value of end: Ok(end) at the
\* break, IndexError when raw[end + 1] is past the data, and Err("NoReturn")
\* when a value of end comes back, since the loop then never ends.
RECURSIVE kvlm_find_end(_, _, _)
kvlm_find_end(raw, end, seen) ==
  LET e == find(raw, LF, end + 1)
  IN IF e + 1 >= Len(raw) THEN Err("IndexError")
     ELSE IF raw[e + 2] # SP THEN Ok(e)
     ELSE IF e \in seen THEN Err("NoReturn")
     ELSE kvlm_find_end(raw, e, seen \cup {e})

\* kvlm_parse(raw, start, dct).  A start met twice means the recursion never
\* reaches the base case: the interpreter ends it with RecursionError.
RECURSIVE kvlm_parse_from(_, _, _, _)
kvlm_parse_from(raw, start, dct, seen) ==
  LET space == find(raw, SP, start)
      new_line == find(raw, LF, start)
      key == BytesKey(slice(raw, start, space))
      end == kvlm_find_end(raw, start, {})
      value == replace_lfsp_lf(slice(raw, space + 1, end.v))
      old == dict_get(dct, key)
      dct2 == IF dict_has(dct, key)
              THEN dict_set(dct, key, ListOf(Append(old.items, value)))
              ELSE dict_set(dct, key, Single(value))
  IN IF (space < 0) \/ (new_line < space)
     THEN IF new_line # start THEN Err("AssertionError")
          ELSE Ok(dict_set(dct, NoneKey, Single(slice_from(raw, start + 1))))
     ELSE IF start \in seen THEN Err("RecursionError")
     ELSE IF IsErr(end) THEN end
     ELSE kvlm_parse_from(raw, end.v + 1, dct2, seen \cup {start})

kvlm_parse(raw) == kvlm_parse_from(raw, 0, <<>>, {})

\* the lines of one key: key + b" " + v.replace(b"\n", b"\n ") + b"\n"
RECURSIVE kvlm_serialize_vals(_, _)
kvlm_serialize_vals(key, vals) ==
  IF vals = <<>> THEN <<>>
  ELSE key \o <<SP>> \o replace_lf_lfsp(vals[1]) \o <<LF>>
       \o kvlm_serialize_vals(key, Tail(vals))

RECURSIVE kvlm_serialize_keys(_)
kvlm_serialize_keys(dct) ==
  IF dct = <<>> THEN <<>>
  ELSE (IF dct[1].key.none THEN <<>>
        ELSE kvlm_serialize_vals(dct[1].key.b, dct[1].val.items))
       \o kvlm_serialize_keys(Tail(dct))

kvlm_serialize(kvlm) ==
  IF ~dict_has(kvlm, NoneKey) THEN Err("KeyError")
  ELSE Ok(kvlm_serialize_keys(kvlm) \o <<LF>>
          \o dict_get(kvlm, NoneKey).items[1] \o <<LF>>)

\* ------------------------------------------------------------- objects
B_blob == <<98, 108, 111, 98>>
B_tree == <<116, 114, 101, 101>>
B_commit == <<99, 111, 109, 109, 105, 116>>
B_tag == <<116, 97, 103>>

GitBlob(blobdata) == [fmt |-> B_blob, blobdata |-> blobdata]
GitTree(items) == [fmt |-> B_tree, items |-> items]
GitCommit(kvlm) == [fmt |-> B_commit, kvlm |-> kvlm]
GitTag == [fmt |-> B_tag]

\* c(data) for the class c whose fmt is fmt: GitObject.__init__ with data,
\* which calls the class's deserialize.
deserialize(fmt, data) ==
  IF fmt = B_blob THEN Ok(GitBlob(data))
  ELSE IF fmt = B_tree
       THEN Bind(tree_parse(data), LAMBDA items :
              IF IsErr(items) THEN items ELSE Ok(GitTree(items.v)))
  ELSE IF fmt = B_commit
       THEN Bind(kvlm_parse(data), LAMBDA kvlm :
              IF IsErr(kvlm) THEN kvlm ELSE Ok(GitCommit(kvlm.v)))
  ELSE Err("NotImplementedError")

\* object.serialize(), called without arguments
serialize(object) ==
  IF object.fmt = B_blob THEN Ok(object.blobdata)
  ELSE IF object.fmt = B_tree THEN tree_serialize(object.items)
  ELSE IF object.fmt = B_commit THEN kvlm_serialize(object.kvlm)
  ELSE Err("TypeError")

\* the object as it is after serialize() has run on it
after_serialize(object) ==
  IF object.fmt = B_tree THEN GitTree(items_sorted(object.items)) ELSE object

\* --------------------------------------------------------- Python values
PyStr(p) == [t |-> "str", p |-> p]
PyTuple(xs) == [t |-> "tuple", p |-> xs]
PyBytes(b) == [t |-> "bytes", p |-> b]
PyMethod(b) == [t |-> "method", p |-> b]
PyNone == [t |-> "None", p |-> <<>>]
PyRepo(r) == [t |-> "GitRepository", p |-> r]

\* a + b on bytes
py_add(a, b) ==
  IF a.t = "bytes" /\ b.t = "bytes" THEN Ok(PyBytes(a.p \o b.p))
  ELSE Err("TypeError")

\* str(n) for n >= 0
RECURSIVE str_of_int(_)
str_of_int(n) ==
  IF n < 10 THEN <<48 + n>> ELSE str_of_int(n \div 10) \o <<48 + (n % 10)>>

IsWhite(c) == c \in {9, 10, 11, 12, 13, 32}
RECURSIVE StripWhite(_)
StripWhite(s) ==
  IF s # <<>> /\ IsWhite(s[1]) THEN StripWhite(Tail(s))
  ELSE IF s # <<>> /\ IsWhite(s[Len(s)]) THEN StripWhite(SubSeq(s, 1, Len(s) - 1))
  ELSE s

\* the digits of an int literal: single underscores between digits are
\* allowed and dropped
IsDigit(c) == c >= 48 /\ c <= 57
IsLiteral(s) ==
  /\ s # <<>> /\ IsDigit(s[1]) /\ IsDigit(s[Len(s)])
  /\ \A i \in 1..Len(s) : IsDigit(s[i]) \/ s[i] = 95
  /\ \A i \in 1..(Len(s) - 1) : ~(s[i] = 95 /\ s[i + 1] = 95)

RECURSIVE LiteralValue(_, _)
LiteralValue(s, acc) ==
  IF s = <<>> THEN acc
  ELSE IF s[1] = 95 THEN LiteralValue(Tail(s), acc)
  ELSE LiteralValue(Tail(s), 10 * acc + (s[1] - 48))

\* int(b.decode("ascii")): white space around the literal is dropped, and
\* the literal may have a sign
py_int(b) ==
  LET s == StripWhite(b)
      signed == s # <<>> /\ s[1] \in {43, 45}
      lit == IF signed THEN Tail(s) ELSE s
  IN IF \E i \in 1..Len(b) : b[i] >= 128 THEN Err("UnicodeDecodeError")
     ELSE IF ~IsLiteral(lit) THEN Err("ValueError")
     ELSE IF signed /\ s[1] = 45 THEN Ok(0 - LiteralValue(lit, 0))
     ELSE Ok(LiteralValue(lit, 0))

\* ------------------------------------------------------ zlib and hashlib
RECURSIVE SumBytes(_)
SumBytes(b) == IF b = <<>> THEN 0 ELSE b[1] + SumBytes(Tail(b))

\* A deflate stream of stored blocks: the two header bytes, the data and a
\* checksum of the data.  compress writes the default-level header 78 9c;
\* decompress takes the header of any level.
zlib_compress(data) == <<120, 156>> \o data \o <<(1 + SumBytes(data)) % 251>>

zlib_decompress(z) ==
  LET data == SubSeq(z, 3, Len(z) - 1)
  IN IF Len(z) < 3 \/ z[1] # 120 \/ z[2] \notin {1, 94, 156, 218}
     THEN Err("zlib.error")
     ELSE IF z[Len(z)] # (1 + SumBytes(data)) % 251 THEN Err("zlib.error")
     ELSE Ok(data)

\* hashlib.sha1(b).hexdigest(): 40 hexadecimal digits that are a function of
\* the bytes alone.  The digits are ten words of four; a word is a sum of the
\* bytes weighted by a power of their position, mixed with their number.
RECURSIVE WeightedSum(_, _, _)
WeightedSum(b, j, k) ==
  IF b = <<>> THEN 0
  ELSE ((((j ^ k) % 65521) * b[1]) + WeightedSum(Tail(b), j + 1, k)) % 65521

Hex4(n) ==
  <<HexChar((n \div 4096) % 16), HexChar((n \div 256) % 16),
    HexChar((n \div 16) % 16), HexChar(n % 16)>>

RECURSIVE Digest(_, _)
Digest(b, k) ==
  IF k > 9 THEN <<>>
  ELSE Hex4(((WeightedSum(b, 1, 3 - (k % 4)) * (1 + (k \div 4))) + (Len(b) * k)) % 65521)
       \o Digest(b, k + 1)

sha1_hexdigest(b) == Digest(b, 0)

\* ---------------------------------------------------------- file system
\* A path is the sequence of its segments; fs maps every path that exists
\* to a directory or to a file with its bytes.  The root always exists.
S_git == <<46, 103, 105, 116>>
S_objects == <<111, 98, 106, 101, 99, 116, 115>>
S_config == <<99, 111, 110, 102, 105, 103>>

DirNode == [kind |-> "dir", data |-> <<>>]
FileNode(data) == [kind |-> "file", data |-> data]

os_path_exists(fs, p) == p \in DOMAIN fs
os_path_isdir(fs, p) == p \in DOMAIN fs /\ fs[p].kind = "dir"
os_path_isfile(fs, p) == p \in DOMAIN fs /\ fs[p].kind = "file"
Parent(p) == SubSeq(p, 1, Len(p) - 1)
Prefixes(p) == {SubSeq(p, 1, n) : n \in 0..Len(p)}

\* os.listdir(p): the names directly under p
os_listdir(fs, p) ==
  {q[Len(q)] : q \in {r \in DOMAIN fs : Len(r) = Len(p) + 1 /\ Parent(r) = p}}

\* os.makedirs(p)
os_makedirs(fs, p) ==
  IF p \in DOMAIN fs THEN [ret |-> Err("FileExistsError"), fs |-> fs]
  ELSE IF \E q \in Prefixes(p) : os_path_isfile(fs, q)
       THEN [ret |-> Err("NotADirectoryError"), fs |-> fs]
  ELSE [ret |-> Ok(PyNone),
        fs |-> [q \in DOMAIN fs \cup Prefixes(p) |->
                  IF q \in DOMAIN fs THEN fs[q] ELSE DirNode]]

\* os.mkdir(p)
os_mkdir(fs, p) ==
  IF p \in DOMAIN fs THEN [ret |-> Err("FileExistsError"), fs |-> fs]
  ELSE IF ~os_path_isdir(fs, Parent(p))
       THEN [ret |-> Err("FileNotFoundError"), fs |-> fs]
  ELSE [ret |-> Ok(PyNone),
        fs |-> [q \in DOMAIN fs \cup {p} |-> IF q = p THEN DirNode ELSE fs[q]]]

\* with open(p, "wb") as f: f.write(data)
open_wb_write(fs, p, data) ==
  IF os_path_isdir(fs, p) THEN [ret |-> Err("IsADirectoryError"), fs |-> fs]
  ELSE IF ~os_path_isdir(fs, Parent(p))
       THEN [ret |-> Err("FileNotFoundError"), fs |-> fs]
  ELSE [ret |-> Ok(PyNone),
        fs |-> [q \in DOMAIN fs \cup {p} |->
                  IF q = p THEN FileNode(data) ELSE fs[q]]]

\* os.path.join(a, *parts): every argument has to be a str
RECURSIVE JoinAll(_)
JoinAll(parts) ==
  IF parts = <<>> THEN <<>> ELSE parts[1].p \o JoinAll(Tail(parts))

os_path_join(a, parts) ==
  IF a.t # "str" \/ \E i \in 1..Len(parts) : parts[i].t # "str"
  THEN Err("TypeError")
  ELSE Ok(PyStr(a.p \o JoinAll(parts)))

\* ----------------------------------------------------------- repository
\* repo_path(repo, *path)
repo_path(repo, path) == os_path_join(PyStr(repo.gitdir), path)

\* repo_dir(repo, *path, mkdir): the tuple path is handed to repo_path as
\* one argument.
repo_dir(fs, repo, path, mkdir) ==
  Bind(repo_path(repo, <<PyTuple(path)>>), LAMBDA p :
    IF IsErr(p) THEN [ret |-> p, fs |-> fs]
    ELSE IF os_path_exists(fs, p.v.p)
         THEN IF os_path_isdir(fs, p.v.p) THEN [ret |-> p, fs |-> fs]
              ELSE [ret |-> Err("Exception: Not a directory"), fs |-> fs]
    ELSE IF mkdir
         THEN Bind(os_makedirs(fs, p.v.p), LAMBDA made :
                IF IsErr(made.ret) THEN made ELSE [ret |-> p, fs |-> made.fs])
    ELSE [ret |-> Ok(PyNone), fs |-> fs])

\* repo_file(repo, *path, mkdir)
repo_file(fs, repo, path, mkdir) ==
  Bind(repo_dir(fs, repo, SubSeq(path, 1, Len(path) - 1), mkdir), LAMBDA d :
    IF IsErr(d.ret) THEN d
    ELSE IF d.ret.v.t = "None" THEN [ret |-> Ok(PyNone), fs |-> d.fs]
    ELSE [ret |-> repo_path(repo, path), fs |-> d.fs])

\* GitRepository(path, force).  The config file's bytes stand for the value
\* of core.repositoryformatversion.
GitRepository(fs, path, force) ==
  LET self == [worktree |-> path, gitdir |-> path \o <<S_git>>]
  IN IF ~(force \/ os_path_isdir(fs, self.gitdir))
     THEN Err("Exception: not a Git repository")
     ELSE Bind(repo_file(fs, self, <<PyStr(<<S_config>>)>>, FALSE).ret, LAMBDA config :
       IF IsErr(config) THEN config
       ELSE IF ~(config.v.t = "str" /\ os_path_exists(fs, config.v.p)) /\ ~force
            THEN Err("Exception: Configuration file missing")
       ELSE IF force THEN Ok(self)
       ELSE Bind(py_int(fs[config.v.p].data), LAMBDA version :
              IF IsErr(version) THEN version
              ELSE IF version.v # 0
                   THEN Err("Exception: Unsupported repositoryformatversion")
              ELSE Ok(self)))

\* repo_find(path): the directories from path upwards are tried in turn; at
\* the root the parent is never equal to the path, so the recursion goes on
\* until the interpreter ends it.
RECURSIVE repo_find(_, _)
repo_find(fs, path) ==
  IF os_path_isdir(fs, path \o <<S_git>>) THEN GitRepository(fs, path, FALSE)
  ELSE IF path = <<>> THEN Err("RecursionError")
  ELSE repo_find(fs, Parent(path))

object_find(repo, name) == name

\* ---------------------------------------------------------- object store
PyObj(o) == [t |-> "object", p |-> o]

\* the *path arguments "objects", sha[0:2], sha[2:]
object_path_args(sha) ==
  <<PyStr(<<S_objects>>), PyStr(<<slice(sha, 0, 2)>>), PyStr(<<slice_from(sha, 2)>>)>>

\* What the raise for a type tag that is none of the four does.  Its
\* argument format(fmt.decode("ascii"), sha) takes sha as a format
\* specification, and that raises ValueError unless sha is a width: digits
\* only, of a value a width can have.
unknown_type(fmt, sha) ==
  IF \E i \in 1..Len(fmt) : fmt[i] >= 128 THEN Err("UnicodeDecodeError")
  ELSE IF (\A i \in 1..Len(sha) : IsDigit(sha[i])) /\ Len(StripLeading(sha, 48)) <= 18
       THEN Err("Exception: Unknown type")
  ELSE Err("ValueError")

\* The body of object_read once the file is open: the frame is parsed, its
\* length validated and the constructor picked by the type tag.
object_read_frame(z, sha) ==
  Bind(zlib_decompress(z), LAMBDA raw :
    IF IsErr(raw) THEN raw
    ELSE
      Bind(find(raw.v, SP, 0), LAMBDA x :
      Bind(slice(raw.v, 0, x), LAMBDA fmt :
      Bind(find(raw.v, NUL, x), LAMBDA y :
      Bind(py_int(slice(raw.v, x, y)), LAMBDA size :
        IF IsErr(size) THEN size
        ELSE IF size.v # Len(raw.v) - y - 1 THEN Err("Exception: Malformed object")
        ELSE IF fmt \notin {B_commit, B_tree, B_tag, B_blob}
             THEN unknown_type(fmt, sha)
        ELSE Bind(deserialize(fmt, slice_from(raw.v, y + 1)), LAMBDA made :
               IF IsErr(made) THEN made ELSE Ok(PyObj(made.v))))))))

\* object_read(repo, sha): Ok(PyNone), Ok(PyObj(object)) or the exception.
\* os.path.isfile raises TypeError on None.
object_read(fs, repo, sha) ==
  Bind(repo_file(fs, repo, object_path_args(sha), FALSE).ret, LAMBDA path :
    IF IsErr(path) THEN path
    ELSE IF path.v.t # "str" THEN Err("TypeError")
    ELSE IF ~os_path_isfile(fs, path.v.p) THEN Ok(PyNone)
    ELSE object_read_frame(fs[path.v.p].data, sha))

\* object_write without the test that the file is absent: the header is
\* built, and the compressed frame is written over whatever the path holds.
object_write_overwrite(fs, object, repo) ==
  Bind(serialize(object), LAMBDA data :
    IF IsErr(data) THEN [ret |-> data, fs |-> fs]
    ELSE
      Bind(object.fmt \o <<SP>> \o str_of_int(Len(data.v)) \o <<NUL>> \o data.v,
           LAMBDA result :
      Bind(sha1_hexdigest(result), LAMBDA sha :
        IF repo.t = "None" THEN [ret |-> Ok(sha), fs |-> fs]
        ELSE
          Bind(repo_path(repo.p, object_path_args(sha)).v.p, LAMBDA p :
          Bind(IF os_path_exists(fs, Parent(p)) THEN fs
               ELSE os_makedirs(fs, Parent(p)).fs, LAMBDA dirs :
          Bind(open_wb_write(dirs, p, zlib_compress(result)), LAMBDA written :
            IF IsErr(written.ret) THEN written
            ELSE [ret |-> Ok(sha), fs |-> written.fs]))))))

\* object_write(object, repo): [ret, fs], the value returned or the exception
\* raised and the file system afterwards.  In the header the attribute
\* str(len(data)).encode is added to bytes without being called.
object_write(fs, object, repo) ==
  Bind(serialize(object), LAMBDA data :
    IF IsErr(data) THEN [ret |-> data, fs |-> fs]
    ELSE
      Bind(py_add(PyBytes(object.fmt \o <<SP>>), PyMethod(str_of_int(Len(data.v)))),
           LAMBDA head :
        IF IsErr(head) THEN [ret |-> head, fs |-> fs]
        ELSE
          Bind(head.v.p \o <<NUL>> \o data.v, LAMBDA result :
          Bind(sha1_hexdigest(result), LAMBDA sha :
            IF repo.t = "None" THEN [ret |-> Ok(sha), fs |-> fs]
            ELSE
              Bind(repo_file(fs, repo.p, object_path_args(sha), TRUE), LAMBDA path :
                IF IsErr(path.ret) THEN path
                ELSE IF os_path_exists(path.fs, path.ret.v.p)
                     THEN [ret |-> Ok(sha), fs |-> path.fs]
                ELSE
                  Bind(open_wb_write(path.fs, path.ret.v.p, zlib_compress(result)),
                       LAMBDA written :
                    IF IsErr(written.ret) THEN written
                    ELSE [ret |-> Ok(sha), fs |-> written.fs]))))))

\* object_hash(fd, fmt, repo), data being what fd.read() returns
object_hash(fs, data, fmt, repo) ==
  IF fmt \notin {B_commit, B_tree, B_tag, B_blob}
  THEN [ret |-> Err("Exception: Unknown type"), fs |-> fs]
  ELSE Bind(deserialize(fmt, data), LAMBDA object :
         IF IsErr(object) THEN [ret |-> object, fs |-> fs]
         ELSE object_write(fs, object.v, repo))

\* -------------------------------------------------------------- checkout
\* tree_checkout(repo, tree, path) over the items still to do.  dest is
\* os.path.join(repo, item.sha), with the repository object as its first
\* argument.
RECURSIVE tree_checkout_items(_, _, _, _)
tree_checkout_items(fs, repo, items, path) ==
  IF items = <<>> THEN [ret |-> Ok(PyNone), fs |-> fs]
  ELSE
    Bind(object_read(fs, repo, items[1].sha), LAMBDA obj :
    Bind(os_path_join(PyRepo(repo), <<PyStr(<<items[1].sha>>)>>), LAMBDA dest :
      IF IsErr(obj) THEN [ret |-> obj, fs |-> fs]
      ELSE IF IsErr(dest) THEN [ret |-> dest, fs |-> fs]
      ELSE IF obj.v.t = "None" THEN [ret |-> Err("AttributeError"), fs |-> fs]
      ELSE IF obj.v.p.fmt = B_tree
           THEN Bind(os_mkdir(fs, dest.v.p), LAMBDA made :
                  IF IsErr(made.ret) THEN made
                  ELSE Bind(tree_checkout_items(made.fs, repo, obj.v.p.items, dest.v.p),
                            LAMBDA sub :
                         IF IsErr(sub.ret) THEN sub
                         ELSE tree_checkout_items(sub.fs, repo, Tail(items), path)))
      ELSE IF obj.v.p.fmt = B_blob
           THEN Bind(open_wb_write(fs, dest.v.p, obj.v.p.blobdata), LAMBDA wrote :
                  IF IsErr(wrote.ret) THEN wrote
                  ELSE tree_checkout_items(wrote.fs, repo, Tail(items), path))
      ELSE tree_checkout_items(fs, repo, Tail(items), path)))

\* tree_checkout(repo, tree, path); tree is what object_read returned
tree_checkout(fs, repo, tree, path) ==
  IF tree.t = "None" \/ tree.p.fmt # B_tree
  THEN [ret |-> Err("AttributeError"), fs |-> fs]
  ELSE tree_checkout_items(fs, repo, tree.p.items, path)

\* the value of obj.kvlm[b"tree"].decode("ascii")
commit_tree_sha(kvlm) ==
  IF ~dict_has(kvlm, BytesKey(B_tree)) THEN Err("KeyError")
  ELSE IF dict_get(kvlm, BytesKey(B_tree)).list THEN Err("AttributeError")
  ELSE Ok(dict_get(kvlm, BytesKey(B_tree)).items[1])

\* the object cmd_checkout hands to tree_checkout: for a commit, what the
\* read of its tree returns
checkout_tree(fs, repo, obj) ==
  IF obj.v.p.fmt = B_commit
  THEN Bind(commit_tree_sha(obj.v.p.kvlm), LAMBDA tsha :
         IF IsErr(tsha) THEN tsha ELSE object_read(fs, repo, tsha.v))
  ELSE obj

\* cmd_checkout(args) run in the directory cwd, with args.commit and the
\* absolute path of args.path
cmd_checkout(fs, cwd, commit, path) ==
  Bind(repo_find(fs, cwd), LAMBDA repo :
    IF IsErr(repo) THEN [ret |-> repo, fs |-> fs]
    ELSE
      Bind(object_read(fs, repo.v, object_find(repo.v, commit)), LAMBDA obj :
        IF IsErr(obj) THEN [ret |-> obj, fs |-> fs]
        ELSE IF obj.v.t = "None" THEN [ret |-> Err("AttributeError"), fs |-> fs]
        ELSE
          Bind(checkout_tree(fs, repo.v, obj), LAMBDA tree :
            IF IsErr(tree) THEN [ret |-> tree, fs |-> fs]
            ELSE IF os_path_exists(fs, path)
                 THEN IF ~os_path_isdir(fs, path)
                      THEN [ret |-> Err("Exception: Not a directory"), fs |-> fs]
                      ELSE IF os_listdir(fs, path) = {}
                           THEN [ret |-> Err("Exception: Not empty"), fs |-> fs]
                      ELSE tree_checkout(fs, repo.v, tree.v, path)
            ELSE Bind(os_makedirs(fs, path), LAMBDA made :
                   IF IsErr(made.ret) THEN made
                   ELSE tree_checkout(made.fs, repo.v, tree.v, path)))))

\* ------------------------------------------------------------ the inputs
M_file == <<49, 48, 48, 54, 52, 52>>       \* b"100644"
M_dir == <<48, 52, 48, 48, 48, 48>>        \* b"040000"
M_link == <<49, 50, 48, 48, 48, 48>>       \* b"120000"
N_a == <<97>>                              \* "a"
N_a_dash == <<97, 45>>                     \* "a-"
D_hi == <<104, 105>>                       \* b"hi"
D_msg == <<109, 10>>                       \* b"m\n"

\* the frame of a payload: fmt + b" " + str(len(data)) + b"\x00" + data
Frame(fmt, data) == fmt \o <<SP>> \o str_of_int(Len(data)) \o <<NUL>> \o data

\* an object file as another implementation of the format stores it: the
\* frame, compressed at level 1
StoredFile(frame) == <<120, 1>> \o frame \o <<(1 + SumBytes(frame)) % 251>>

BlobHi == GitBlob(D_hi)
BlobHiId == sha1_hexdigest(Frame(B_blob, D_hi))

\* a tree payload in the format's own layout: mode, space, name, NUL, hash
TreeRaw == M_file \o <<SP>> \o N_a \o <<NUL>> \o BytesOfHex(BlobHiId)
TreeId == sha1_hexdigest(Frame(B_tree, TreeRaw))

CommitRaw == B_tree \o <<SP>> \o TreeId \o <<LF, LF>> \o D_msg
CommitId == sha1_hexdigest(Frame(B_commit, CommitRaw))

\* a frame whose length field is not the length of its payload
BadFrame == B_blob \o <<SP>> \o str_of_int(9) \o <<NUL>> \o D_hi
BadId == sha1_hexdigest(BadFrame)

\* an identifier with no object file; its directory is that of BlobHiId
NearId == [BlobHiId EXCEPT ![40] = IF BlobHiId[40] = 48 THEN 49 ELSE 48]
\* an identifier with no object file and no directory
FarId == [i \in 1..40 |-> 102]

Leaves == {GitTreeLeaf(m, n, BlobHiId) : m \in {M_file, M_dir, M_link},
                                         n \in {N_a, N_a_dash}}

RECURSIVE SeqsUpTo(_, _)
SeqsUpTo(S, n) ==
  IF n = 0 THEN {<<>>}
  ELSE LET shorter == SeqsUpTo(S, n - 1)
       IN shorter \cup {Append(q, e) : q \in shorter, e \in S}

Trees == {GitTree(items) : items \in SeqsUpTo(Leaves, MaxItems)}

Kvlms == {
  <<>>,
  <<[key |-> NoneKey, val |-> Single(D_msg)]>>,
  <<[key |-> BytesKey(B_tree), val |-> Single(TreeId)],
    [key |-> NoneKey, val |-> Single(D_msg)]>>,
  <<[key |-> BytesKey(B_tree), val |-> Single(TreeId)],
    [key |-> BytesKey(N_a), val |-> ListOf(<<D_hi, N_a>>)],
    [key |-> NoneKey, val |-> Single(<<>>)]>>,
  <<[key |-> BytesKey(N_a), val |-> Single(<<104, 10, 105>>)],
    [key |-> NoneKey, val |-> Single(D_hi)]>> }

Blobs == {GitBlob(<<>>), BlobHi, GitBlob(<<104, 10, 0, 32>>)}

Objects == Blobs \cup Trees \cup {GitCommit(k) : k \in Kvlms} \cup {GitTag}

\* -------------------------------------------------------------- the state
VARIABLES fs, before, last, input

vars == <<fs, before, last, input>>

Worktree == <<<<114>>>>                    \* "/r"
Repo == [worktree |-> Worktree, gitdir |-> Worktree \o <<S_git>>]
Cwd == Worktree
Target == <<<<116>>>>                      \* "/t"

ObjectFile(sha) == Repo.gitdir \o <<S_objects, slice(sha, 0, 2), slice_from(sha, 2)>>

\* the object files a repository may hold before the program runs
Candidates == {
  [id |-> BlobHiId, file |-> StoredFile(Frame(B_blob, D_hi))],
  [id |-> TreeId, file |-> StoredFile(Frame(B_tree, TreeRaw))],
  [id |-> CommitId, file |-> StoredFile(Frame(B_commit, CommitRaw))],
  [id |-> BadId, file |-> StoredFile(BadFrame)] }

FsOf(stored, spare, target) ==
  LET base == {<<>>, Worktree, Repo.gitdir, Repo.gitdir \o <<S_objects>>}
      dirs == base
              \cup {Parent(ObjectFile(c.id)) : c \in stored}
              \cup {p \in {Parent(ObjectFile(FarId))} : spare}
              \cup {p \in {Target} : target \in {"empty", "full"}}
      conf == Repo.gitdir \o <<S_config>>
      files == {conf} \cup {ObjectFile(c.id) : c \in stored}
               \cup {p \in {Target} : target = "file"}
               \cup {p \in {Target \o <<N_a>>} : target = "full"}
  IN [p \in dirs \cup files |->
        IF p \in dirs THEN DirNode
        ELSE IF p = conf THEN FileNode(<<48>>)
        ELSE IF \E c \in stored : ObjectFile(c.id) = p
             THEN FileNode((CHOOSE c \in stored : ObjectFile(c.id) = p).file)
        ELSE FileNode(D_hi)]

NoOp == [op |-> "none"]

InitFs ==
  \E stored \in {S \in SUBSET Candidates : Cardinality(S) <= MaxStored} :
  \E target \in {"absent", "empty", "full", "file"} :
    fs = FsOf(stored, FALSE, target)

Init ==
  /\ InitFs
  /\ before = fs
  /\ last = NoOp
  /\ input = NoOp

WriteObjects == {BlobHi, GitBlob(<<>>),
                 GitTree(<<GitTreeLeaf(M_file, N_a, BlobHiId)>>),
                 GitCommit(<<[key |-> NoneKey, val |-> Single(D_msg)]>>),
                 GitTag}
Repos == {PyRepo(Repo), PyNone}
ReadIds == {BlobHiId, TreeId, CommitId, BadId, NearId, FarId}
HashInputs == {[data |-> D_hi, fmt |-> B_blob], [data |-> TreeRaw, fmt |-> B_tree],
               [data |-> CommitRaw, fmt |-> B_commit], [data |-> CommitRaw, fmt |-> B_tag]}

Step(op, args, res) ==
  \E r \in {res} :
    /\ last' = [op |-> op, args |-> args, ret |-> r.ret]
    /\ fs' = r.fs
    /\ before' = fs
    /\ UNCHANGED input

ObjectWrite ==
  \E object \in WriteObjects, repo \in Repos :
    Step("object_write", [object |-> object, repo |-> repo],
         object_write(fs, object, repo))

ObjectRead ==
  \E sha \in ReadIds :
    Step("object_read", [sha |-> sha],
         [ret |-> object_read(fs, Repo, sha), fs |-> fs])

ObjectHash ==
  \E h \in HashInputs, repo \in Repos :
    Step("object_hash", [data |-> h.data, fmt |-> h.fmt, repo |-> repo],
         object_hash(fs, h.data, h.fmt, repo))

CmdCheckout ==
  \E commit \in ReadIds :
    Step("cmd_checkout", [commit |-> commit, path |-> Target],
         cmd_checkout(fs, Cwd, commit, Target))

TreeCheckout ==
  \E tree \in {GitTree(<<GitTreeLeaf(M_file, N_a, BlobHiId)>>),
               GitTree(<<GitTreeLeaf(M_dir, N_a, TreeId)>>)} :
    Step("tree_checkout", [tree |-> tree, path |-> Target],
         tree_checkout(fs, Repo, PyObj(tree), Target))

Next == ObjectWrite \/ ObjectRead \/ ObjectHash \/ CmdCheckout \/ TreeCheckout

Spec == Init /\ [][Next]_vars

\* ------------------------------------------------------------ the codecs
\* The codecs are functions of their argument: the object is drawn at the
\* start and every action applies a codec to it.
InitCodec ==
  /\ fs = FsOf({}, FALSE, "absent")
  /\ before = fs
  /\ last = NoOp
  /\ input \in Objects

\* decode(encode(o)): the object's class is called with serialize()'s bytes
round_trip(object) ==
  Bind(serialize(object), LAMBDA data :
    IF IsErr(data) THEN data ELSE deserialize(object.fmt, data.v))

\* encode(decode(encode(o)))
re_encode(object) ==
  Bind(round_trip(object), LAMBDA back :
    IF IsErr(back) THEN back ELSE serialize(back.v))

Apply(op, res) ==
  /\ last.op = "none"
  /\ last' = [op |-> op, args |-> input, ret |-> res]
  /\ UNCHANGED <<fs, before, input>>

Encode == Apply("encode", serialize(input))
RoundTrip == Apply("round_trip", round_trip(input))
ReEncode == Apply("re_encode", re_encode(input))

NextCodec == Encode \/ RoundTrip \/ ReEncode

SpecCodec == InitCodec /\ [][NextCodec]_vars

\* ------------------------------------------------------- the KVLM parser
\* kvlm_parse run statement by statement on the bytes in input.  last holds
\* the frame of the running call: the place in the body, start, end, dct and
\* the depth of the recursion.  The interpreter ends a recursion deeper than
\* RecursionLimit with RecursionError.
MaxRaw == 4
RecursionLimit == MaxRaw

CH_k == 107
RawInputs == SeqsUpTo({CH_k, SP, LF}, MaxRaw)

KvFrame(pc, start, end, dct, depth, ret) ==
  [op |-> "kvlm_parse", pc |-> pc, start |-> start, end |-> end, dct |-> dct,
   depth |-> depth, ret |-> ret]

InitKvlm ==
  /\ fs = FsOf({}, FALSE, "absent")
  /\ before = fs
  /\ input \in RawInputs
  /\ last = KvFrame("call", 0, 0, <<>>, 1, NoOp)

KvReturned == last.pc = "returned"
KvRaised == last.pc = "raised"

\* dct[key] = value, or the value joined to the values the key has
kvlm_add(dct, key, value) ==
  IF dict_has(dct, key)
  THEN dict_set(dct, key, ListOf(Append(dict_get(dct, key).items, value)))
  ELSE dict_set(dct, key, Single(value))

\* from the entry of a call to the return of the base case or to the loop
KvlmCall ==
  /\ last.pc = "call"
  /\ \E space \in {find(input, SP, last.start)} :
     \E new_line \in {find(input, LF, last.start)} :
       last' =
         IF (space < 0) \/ (new_line < space)
         THEN IF new_line # last.start
              THEN [last EXCEPT !.pc = "raised", !.ret = Err("AssertionError")]
              ELSE \* the message is stored and dct returned
                   [last EXCEPT
                      !.pc = "returned",
                      !.dct = dict_set(last.dct, NoneKey,
                                       Single(slice_from(input, last.start + 1))),
                      !.ret = Ok(dict_set(last.dct, NoneKey,
                                          Single(slice_from(input, last.start + 1))))]
         ELSE [last EXCEPT !.pc = "while", !.end = last.start]
  /\ UNCHANGED <<fs, before, input>>

\* one iteration of the while True loop
KvlmWhile ==
  /\ last.pc = "while"
  /\ \E e \in {find(input, LF, last.end + 1)} :
       last' =
         IF e + 1 >= Len(input)
         THEN [last EXCEPT !.pc = "raised", !.ret = Err("IndexError")]
         ELSE IF input[e + 2] # SP
              THEN [last EXCEPT !.pc = "value", !.end = e]
         ELSE [last EXCEPT !.end = e]
  /\ UNCHANGED <<fs, before, input>>

\* after the break: the value is stored and kvlm_parse calls itself
KvlmValue ==
  /\ last.pc = "value"
  /\ \E space \in {find(input, SP, last.start)} :
     \E key \in {BytesKey(slice(input, last.start, space))} :
     \E value \in {replace_lfsp_lf(slice(input, space + 1, last.end))} :
       last' =
         IF last.depth >= RecursionLimit
         THEN [last EXCEPT !.pc = "raised", !.ret = Err("RecursionError"),
                           !.dct = kvlm_add(last.dct, key, value)]
         ELSE [last EXCEPT !.pc = "call", !.start = last.end + 1,
                           !.dct = kvlm_add(last.dct, key, value),
                           !.depth = last.depth + 1]
  /\ UNCHANGED <<fs, before, input>>

NextKvlm == KvlmCall \/ KvlmWhile \/ KvlmValue

SpecKvlm == InitKvlm /\ [][NextKvlm]_vars

\* the interpreter runs the next statement as long as there is one
FairKvlm == SpecKvlm /\ WF_vars(NextKvlm)

\* =============================================================== claims
IsContentId(v) == Len(v) = 40 /\ IsHex(v)
IsObjectFile(f, p) ==
  /\ Len(p) > Len(Repo.gitdir) + 1
  /\ SubSeq(p, 1, Len(Repo.gitdir) + 1) = Repo.gitdir \o <<S_objects>>
  /\ f[p].kind = "file"
ObjectFiles(f) == {p \in DOMAIN f : IsObjectFile(f, p)}
IsWrite(r) == r.op = "object_write" /\ r.args.repo.t # "None"

\* C1: a write to a repository returns an identifier, and the same write
\* made again on the store the first left returns the same identifier and
\* leaves the file system as the first left it.
C1_WriteIdempotent ==
  IsWrite(last)
    => /\ IsOk(last.ret)
       /\ IsContentId(last.ret.v)
       /\ LET again == object_write(fs, last.args.object, last.args.repo)
          IN again.ret = last.ret /\ again.fs = fs

\* C2: a write to a repository returns an identifier, and a read of that
\* identifier from the store the write left gives back an object of the
\* same kind with the same payload.
C2_ReadAfterWrite ==
  IsWrite(last)
    => /\ IsOk(last.ret)
       /\ LET got == object_read(fs, Repo, last.ret.v)
          IN /\ IsOk(got)
             /\ got.v.t = "object"
             /\ got.v.p = after_serialize(last.args.object)

\* C3: no step updates or deletes an object file: every object file of the
\* state before a step is there after it, with the same bytes.
C3_AppendOnly ==
  [][\A p \in ObjectFiles(fs) : p \in DOMAIN fs' /\ fs'[p] = fs[p]]_vars

\* a write to the repository of an object whose file is already stored, and
\* stored with other bytes than the program's own compression gives
C3_Witness ==
  /\ IsWrite(last)
  /\ last.args.object = BlobHi
  /\ ObjectFile(BlobHiId) \in ObjectFiles(before)
  /\ before[ObjectFile(BlobHiId)].data # zlib_compress(Frame(B_blob, D_hi))
  /\ ObjectFiles(fs) # {}

\* the key of the canonical order: the name, and the name with "/" after it
\* for an entry whose mode starts with "04"
CanonicalKey(leaf) ==
  IF startswith(leaf.mode, <<48, 52>>) THEN leaf.path \o <<SLASH>> ELSE leaf.path
InCanonicalOrder(items) ==
  \A i \in 1..Len(items) : \A j \in i..Len(items) :
    ~StrLess(CanonicalKey(items[j]), CanonicalKey(items[i]))
Perms(items) ==
  {[i \in 1..Len(items) |-> items[f[i]]] :
     f \in {g \in [1..Len(items) -> 1..Len(items)] :
              \A i, j \in 1..Len(items) : g[i] = g[j] => i = j}}

\* C4: decoding the payload that encoding an object produced gives an
\* object equal to it field for field, for each of the four kinds.
C4_RoundTrip ==
  last.op = "round_trip"
    => IsOk(last.ret) /\ last.ret.v = after_serialize(last.args)

\* C5: the encoding of a tree is the entries in canonical order, whatever
\* order they are given in: every permutation of the entries encodes to the
\* same bytes, and encoding the decoded result gives the first encoding.
C5_CanonicalOrder ==
  /\ (last.op = "encode" /\ last.args.fmt = B_tree)
       => /\ IsOk(last.ret)
          /\ \E q \in Perms(last.args.items) :
               InCanonicalOrder(q) /\ tree_serialize_loop(q, <<>>) = last.ret
          /\ \A q \in Perms(last.args.items) : tree_serialize(q) = last.ret
  /\ (last.op = "re_encode" /\ last.args.fmt = B_tree)
       => IsOk(last.ret) /\ last.ret = serialize(last.args)

TargetAbsent(f) == ~os_path_exists(f, Target)
TargetEmpty(f) == os_path_isdir(f, Target) /\ os_listdir(f, Target) = {}
InvalidTarget(r) ==
  IsErr(r) /\ r.v \in {"Exception: Not a directory", "Exception: Not empty"}
Stored(f, sha) == ObjectFile(sha) \in ObjectFiles(f)

\* C6: a checkout of a stored tree or commit goes on when the target is
\* absent, which is then created, or is an empty directory; when the target
\* is a file or a directory with something in it, the checkout fails with
\* the invalid-target error and the file system is as it was.
C6_TargetPrecondition ==
  (last.op = "cmd_checkout" /\ last.args.commit \in {TreeId, CommitId}
     /\ Stored(before, TreeId) /\ Stored(before, last.args.commit))
    => IF TargetAbsent(before) \/ TargetEmpty(before)
       THEN ~InvalidTarget(last.ret) /\ os_path_isdir(fs, Target)
       ELSE InvalidTarget(last.ret) /\ fs = before

\* the file system a checkout of the entry into dir has to leave: a blob
\* entry is a file of the entry's name with the blob's bytes, a tree entry
\* a directory of the entry's name with the tree's entry checked out in it
Materialized(f, dir, leaf) ==
  IF leaf.sha = BlobHiId
  THEN os_path_isfile(f, dir \o <<leaf.path>>) /\ f[dir \o <<leaf.path>>].data = D_hi
  ELSE /\ os_path_isdir(f, dir \o <<leaf.path>>)
       /\ os_path_isfile(f, dir \o <<leaf.path, N_a>>)
       /\ f[dir \o <<leaf.path, N_a>>].data = D_hi

\* C7: a checkout of a tree into an empty directory, the objects of its
\* entries being stored, puts every entry under the directory by its name.
C7_MaterializeByName ==
  (last.op = "tree_checkout" /\ TargetEmpty(before)
     /\ Stored(before, BlobHiId) /\ Stored(before, TreeId))
    => /\ IsOk(last.ret)
       /\ \A i \in 1..Len(last.args.tree.items) :
            Materialized(fs, Target, last.args.tree.items[i])

\* C8: a read of an identifier that has no object file returns the
\* not-found result, raises nothing and leaves the file system as it was.
C8_ReadAbsent ==
  (last.op = "object_read" /\ ~os_path_exists(before, ObjectFile(last.args.sha)))
    => IsOk(last.ret) /\ last.ret.v.t = "None" /\ fs = before

\* the frame in an object file declares a length that is not the number
\* of bytes after its NUL
LengthMismatch(z) ==
  LET raw == zlib_decompress(z)
      x == find(raw.v, SP, 0)
      y == find(raw.v, NUL, x)
      declared == py_int(slice(raw.v, x + 1, y))
  IN /\ IsOk(raw) /\ x >= 0 /\ y > x
     /\ IsOk(declared)
     /\ declared.v # Len(raw.v) - (y + 1)

\* C9: a read of an object file whose frame declares another length than
\* its payload has is rejected with the corrupt-object error.
C9_LengthValidation ==
  (last.op = "object_read" /\ Stored(before, last.args.sha)
     /\ LengthMismatch(before[ObjectFile(last.args.sha)].data))
    => IsErr(last.ret) /\ last.ret.v = "Exception: Malformed object"

\* C10: hashing without a repository returns an identifier and leaves the
\* file system as it was.
C10_DryRunHash ==
  (last.op = "object_hash" /\ last.args.repo.t = "None")
    => IsOk(last.ret) /\ IsContentId(last.ret.v) /\ fs = before

\* C11: the decoding of every finite input ends: it reaches the return of
\* the base case or raises an exception.
C11_DecodeTerminates == <>(KvReturned \/ KvRaised)

====
